---- MODULE Spec2Model ----
(***************************************************************************)
(* Model of octopus-to-tado-sync: the three entry points                   *)
(*   backfill_by_day.py            (entry = "backfill")                    *)
(*   sync_octopus_tado.py          (entry = "sync")                        *)
(*   sync_octopus_tado_rates.py    (entry = "rates")                       *)
(* Each run is a sequential program; pc is the statement the run is at,    *)
(* exc the exception that ended it ("none" while it runs or after it ended *)
(* normally).  The Octopus API and the Tado session are the environment:   *)
(* every response and every push outcome is chosen with \E.                *)
(*                                                                         *)
(* Units: consumption is held in halves of a kWh, so that int(reading)     *)
(* (truncation toward zero) is not the identity; value_inc_vat is held in  *)
(* multiples of 100 so that rate / 100 is exact.                           *)
(***************************************************************************)
EXTENDS Integers, Sequences, FiniteSets, TLC

VARIABLES
    entry,              \* which script runs
    pc,                 \* position of the run
    exc,                \* unhandled exception that ended the run, or "none"
    tado,               \* "none" before tado_login returned, "session" after
    rates,              \* rates returned by the rate fetcher
    rateRequests,       \* GETs issued to .../standard-unit-rates/
    pageRequests,       \* GETs issued to .../consumption/
    served,             \* the results of the pages answered with 200, in order
    fetchStatus,        \* how the consumption fetch ended
    consumption,        \* backfill: the accumulated list of intervals
    total_consumption,  \* sync: the accumulated sum
    sum_consumption,    \* backfill: the running total of the reading loop
    i,                  \* backfill: index of the next rate
    j,                  \* backfill: index of the next interval
    tariffPushes,       \* calls of tado.set_eiq_tariff, in order
    readingPushes       \* calls of tado.set_eiq_meter_readings, in order

vars == <<entry, pc, exc, tado, rates, rateRequests, pageRequests, served,
          fetchStatus, consumption, total_consumption, sum_consumption, i, j,
          tariffPushes, readingPushes>>

\* ------------------------------------------------------------------ bounds

\* most page requests one consumption fetch is answered with a cursor for
MaxPages == 2
\* most rate records one rate response holds
MaxRates == 2

\* ------------------------------------------------------------------ inputs

EntryPoints == {"backfill", "sync", "rates"}

TS(y, m, d, h) == [y |-> y, m |-> m, d |-> d, h |-> h]

\* JSON null where a timestamp is expected (no year 0 exists)
Null == TS(0, 0, 0, 0)

\* rate records the rate endpoint may return; valid_to is null for the
\* open-ended current rate
RateRecords ==
    { [valid_from |-> TS(2025, 1, 1, 0),  valid_to |-> TS(2025, 2, 1, 0),  value_inc_vat |-> 700],
      [valid_from |-> TS(2024, 2, 29, 0), valid_to |-> TS(2024, 3, 1, 0),  value_inc_vat |-> 600],
      [valid_from |-> TS(2025, 1, 1, 10), valid_to |-> TS(2025, 1, 1, 20), value_inc_vat |-> 600],
      [valid_from |-> TS(2025, 2, 1, 0),  valid_to |-> Null,               value_inc_vat |-> 700] }

SeqsUpTo(S, n) == UNION { [1..k -> S] : k \in 0..n }

RateLists == SeqsUpTo(RateRecords, MaxRates)

\* the consumption deltas (in halves of a kWh) a page's results may hold
PageResults == { <<>>, <<1, 4>>, <<4, -3>> }

\* ------------------------------------------------------------------ helpers

IsLeap(y) == (y % 4 = 0 /\ y % 100 # 0) \/ y % 400 = 0

DaysInMonth(y, m) ==
    IF m = 2 THEN (IF IsLeap(y) THEN 29 ELSE 28)
    ELSE IF m \in {4, 6, 9, 11} THEN 30 ELSE 31

\* datetime - timedelta(days=1): the time of day is kept
MinusOneDay(t) ==
    IF t.d > 1 THEN [t EXCEPT !.d = t.d - 1]
    ELSE IF t.m > 1 THEN [t EXCEPT !.m = t.m - 1, !.d = DaysInMonth(t.y, t.m - 1)]
    ELSE [t EXCEPT !.y = t.y - 1, !.m = 12, !.d = 31]

\* strftime("%Y-%m-%d"): the date component only
DateOf(t) == <<t.y, t.m, t.d>>

\* datetime.fromisoformat raises on a value that is no ISO string
Parses(v) == v # Null

\* int(reading): truncation toward zero of a value held in halves
IntOf(h) == IF h >= 0 THEN h \div 2 ELSE -((-h) \div 2)

RECURSIVE SumOf(_)
SumOf(s) == IF s = <<>> THEN 0 ELSE s[1].consumption + SumOf(Tail(s))

RECURSIVE Concat(_)
Concat(ss) == IF ss = <<>> THEN <<>> ELSE ss[1] \o Concat(Tail(ss))

\* the records of a page: interval_end numbers the metering periods in the
\* order the endpoint returns them (order_by=period)
Stamp(deltas, before) ==
    [k \in 1..Len(deltas) |-> [interval_end |-> before + k, consumption |-> deltas[k]]]

\* ------------------------------------------------------------------ state

RunEnded == pc = "done" \/ exc # "none"

\* variant: backfill too fetches before it logs in
FirstStepFetchFirst(e) ==
    IF e = "rates" THEN "fetch_rates" ELSE "fetch_consumption"

\* first statement of each script's __main__ after parse_args
FirstStep(e) ==
    IF e = "backfill" THEN "login" ELSE IF e = "sync" THEN "fetch_consumption" ELSE "fetch_rates"

Init ==
    /\ entry \in EntryPoints
    /\ pc = FirstStep(entry)
    /\ exc = "none"
    /\ tado = "none"
    /\ rates = <<>>
    /\ rateRequests = 0
    /\ pageRequests = 0
    /\ served = <<>>
    /\ fetchStatus = "pending"
    /\ consumption = <<>>
    /\ total_consumption = 0
    /\ sum_consumption = 0
    /\ i = 1
    /\ j = 1
    /\ tariffPushes = <<>>
    /\ readingPushes = <<>>

\* ------------------------------------------------------------------ tado_login

ActivationStatuses == {"COMPLETED", "PENDING", "NOT_STARTED"}

\* tado_login: the status is only printed, the handle is returned whatever it
\* is; browser_login's waits raise on a timeout and nothing catches that.
TadoLogin(next) ==
    \E status \in ActivationStatuses :
        \/ /\ status # "PENDING"
           /\ tado' = "session"
           /\ pc' = next
           /\ exc' = exc
        \/ /\ status = "PENDING"
           /\ \E after \in ActivationStatuses :
                /\ tado' = "session"
                /\ pc' = next
                /\ exc' = exc
        \/ /\ status = "PENDING"
           /\ tado' = tado
           /\ pc' = pc
           /\ exc' = "PlaywrightError"

\* ------------------------------------------------------------------ backfill_by_day.py

BackfillLogin ==
    /\ entry = "backfill" /\ exc = "none" /\ pc = "login"
    /\ TadoLogin("fetch_rates")
    /\ UNCHANGED <<entry, rates, rateRequests, pageRequests, served, fetchStatus,
                   consumption, total_consumption, sum_consumption, i, j,
                   tariffPushes, readingPushes>>

\* get_gas_rates: one GET; a non-200 status and a raised request both leave [].
\* __main__'s "if rates:" skips the loop on an empty list.
BackfillGetGasRates ==
    /\ entry = "backfill" /\ exc = "none" /\ pc = "fetch_rates"
    /\ rateRequests' = rateRequests + 1
    /\ \/ \E rs \in RateLists : rates' = rs
       \/ rates' = <<>>  \* status_code # 200
       \/ rates' = <<>>  \* requests.get raised
    /\ i' = 1
    /\ pc' = IF rates' # <<>> THEN "rate_loop" ELSE "fetch_consumption"
    /\ UNCHANGED <<entry, exc, tado, pageRequests, served, fetchStatus, consumption,
                   total_consumption, sum_consumption, j, tariffPushes, readingPushes>>

\* variant: valid_to formatted as it is, without the day subtracted
NormalizeWindowNoShift(rate) ==
    [date_from |-> DateOf(rate.valid_from), date_to |-> DateOf(rate.valid_to)]

\* date_from, date_to of one rate (both timestamps parse)
NormalizeWindow(rate) ==
    [date_from |-> DateOf(rate.valid_from), date_to |-> DateOf(MinusOneDay(rate.valid_to))]

\* the call tado.set_eiq_tariff receives
TariffCall(item, window, rate, ok) ==
    [item |-> item, date_from |-> window.date_from, date_to |-> window.date_to,
     tariff |-> rate.value_inc_vat \div 100, ok |-> ok]

\* one iteration of "for rate in rates": a record whose timestamp does not
\* parse is logged and skipped; send_rate_to_tado catches what the push raises.
BackfillRateStep ==
    /\ entry = "backfill" /\ exc = "none" /\ pc = "rate_loop"
    /\ i <= Len(rates)
    /\ LET rate == rates[i] IN
         \/ /\ ~(Parses(rate.valid_from) /\ Parses(rate.valid_to))
            /\ tariffPushes' = tariffPushes
         \/ /\ Parses(rate.valid_from) /\ Parses(rate.valid_to)
            /\ \E ok \in BOOLEAN :
                 tariffPushes' = Append(tariffPushes, TariffCall(i, NormalizeWindow(rate), rate, ok))
    /\ i' = i + 1
    /\ pc' = IF i = Len(rates) THEN "fetch_consumption" ELSE pc
    /\ UNCHANGED <<entry, exc, tado, rates, rateRequests, pageRequests, served, fetchStatus,
                   consumption, total_consumption, sum_consumption, j, readingPushes>>

\* variant: the latest page replaces what was accumulated
AccumulateLatestPage(acc, results) == results

\* consumption = consumption + meter_readings["results"]
Accumulate(acc, results) == acc \o results

\* the cursor ("next") is followed while the endpoint gives one
MayHaveNext == pageRequests + 1 < MaxPages

\* one iteration of "while url" of get_meter_reading_total_consumption; when
\* the loop ends the function returns and __main__'s "if consumption:" decides.
BackfillFetchPage ==
    /\ entry = "backfill" /\ exc = "none" /\ pc = "fetch_consumption"
    /\ pageRequests' = pageRequests + 1
    /\ \/ \E deltas \in PageResults, next \in BOOLEAN :
            /\ next => MayHaveNext
            /\ LET results == Stamp(deltas, Len(consumption)) IN
                 /\ consumption' = Accumulate(consumption, results)
                 /\ served' = Append(served, results)
            /\ fetchStatus' = IF next THEN "pending" ELSE "exhausted"
       \/ /\ fetchStatus' = "http_error"
          /\ UNCHANGED <<consumption, served>>
       \/ /\ fetchStatus' = "transport_error"
          /\ UNCHANGED <<consumption, served>>
    /\ j' = 1
    /\ sum_consumption' = 0
    /\ pc' = IF fetchStatus' = "pending" THEN pc
             ELSE IF consumption' # <<>> THEN "reading_loop" ELSE "done"
    /\ UNCHANGED <<entry, exc, tado, rates, rateRequests, total_consumption, i,
                   tariffPushes, readingPushes>>

\* variant: the interval's own delta instead of the running sum
RunningTotalDeltaOnly(sum, interval) == interval.consumption

\* sum_consumption += interval["consumption"]
RunningTotal(sum, interval) == sum + interval.consumption

\* the call tado.set_eiq_meter_readings receives; computed is the value handed
\* to send_reading_to_tado, reading the int() of it
ReadingCall(item, date, computed, ok) ==
    [item |-> item, date |-> date, computed |-> computed, reading |-> IntOf(computed), ok |-> ok]

\* one iteration of "for interval in consumption"
BackfillReadingStep ==
    /\ entry = "backfill" /\ exc = "none" /\ pc = "reading_loop"
    /\ j <= Len(consumption)
    /\ LET interval == consumption[j] IN
         /\ sum_consumption' = RunningTotal(sum_consumption, interval)
         /\ \E ok \in BOOLEAN :
              readingPushes' = Append(readingPushes,
                                      ReadingCall(j, interval.interval_end, sum_consumption', ok))
    /\ j' = j + 1
    /\ pc' = IF j = Len(consumption) THEN "done" ELSE pc
    /\ UNCHANGED <<entry, exc, tado, rates, rateRequests, pageRequests, served, fetchStatus,
                   consumption, total_consumption, i, tariffPushes>>


\* ------------------------------------------------------------------ sync_octopus_tado.py

\* total_consumption += sum(interval["consumption"] for interval in results)
AccumulateTotal(total, results) == total + SumOf(results)

\* one iteration of "while url" of get_meter_reading_total_consumption: no
\* try/except, so a raised request ends the run.
SyncFetchPage ==
    /\ entry = "sync" /\ exc = "none" /\ pc = "fetch_consumption"
    /\ pageRequests' = pageRequests + 1
    /\ \/ \E deltas \in PageResults, next \in BOOLEAN :
            /\ next => MayHaveNext
            /\ LET results == Stamp(deltas, Len(Concat(served))) IN
                 /\ total_consumption' = AccumulateTotal(total_consumption, results)
                 /\ served' = Append(served, results)
            /\ fetchStatus' = IF next THEN "pending" ELSE "exhausted"
            /\ exc' = exc
       \/ /\ fetchStatus' = "http_error"
          /\ exc' = exc
          /\ UNCHANGED <<total_consumption, served>>
       \/ /\ fetchStatus' = "transport_error"
          /\ exc' = "ConnectionError"
          /\ UNCHANGED <<total_consumption, served>>
    /\ pc' = IF fetchStatus' \in {"exhausted", "http_error"} THEN "fetch_rates" ELSE pc
    /\ UNCHANGED <<entry, tado, rates, rateRequests, consumption, sum_consumption, i, j,
                   tariffPushes, readingPushes>>

\* get_gas_rates: one GET, no try/except
SyncGetGasRates ==
    /\ entry = "sync" /\ exc = "none" /\ pc = "fetch_rates"
    /\ rateRequests' = rateRequests + 1
    /\ \/ \E rs \in RateLists : rates' = rs /\ exc' = exc /\ pc' = "login"
       \/ rates' = <<>> /\ exc' = exc /\ pc' = "login"            \* status_code # 200
       \/ rates' = rates /\ exc' = "ConnectionError" /\ pc' = pc  \* requests.get raised
    /\ UNCHANGED <<entry, tado, pageRequests, served, fetchStatus, consumption,
                   total_consumption, sum_consumption, i, j, tariffPushes, readingPushes>>

\* send_reading_to_tado, its first statement: tado_login
SyncLogin ==
    /\ entry = "sync" /\ exc = "none" /\ pc = "login"
    /\ TadoLogin("push_reading")
    /\ UNCHANGED <<entry, rates, rateRequests, pageRequests, served, fetchStatus,
                   consumption, total_consumption, sum_consumption, i, j,
                   tariffPushes, readingPushes>>

NoDate == "today"

\* send_reading_to_tado: tado.set_eiq_meter_readings(reading=int(reading)),
\* whatever was fetched and with no date; what the push raises is not caught.
SyncPushReading ==
    /\ entry = "sync" /\ exc = "none" /\ pc = "push_reading"
    /\ \E ok \in BOOLEAN :
         /\ readingPushes' = Append(readingPushes, ReadingCall(1, NoDate, total_consumption, ok))
         /\ exc' = IF ok THEN exc ELSE "TadoException"
         /\ pc' = IF ok THEN "rate_loop" ELSE pc
    /\ UNCHANGED <<entry, tado, rates, rateRequests, pageRequests, served, fetchStatus,
                   consumption, total_consumption, sum_consumption, i, j, tariffPushes>>

\* send_reading_to_tado, "for rate in rates": the module imports the class
\* (from datetime import datetime), so datetime.datetime in the first
\* iteration raises AttributeError before anything is sent; an empty list
\* skips the loop.
SyncRateLoop ==
    /\ entry = "sync" /\ exc = "none" /\ pc = "rate_loop"
    /\ \/ /\ rates = <<>>
          /\ pc' = "done"
          /\ exc' = exc
       \/ /\ rates # <<>>
          /\ pc' = pc
          /\ exc' = "AttributeError"
    /\ UNCHANGED <<entry, tado, rates, rateRequests, pageRequests, served, fetchStatus,
                   consumption, total_consumption, sum_consumption, i, j,
                   tariffPushes, readingPushes>>

\* ------------------------------------------------------------------ sync_octopus_tado_rates.py

\* get_meter_reading_rates: its first assignment, "rate = null", names nothing
\* Python defines: NameError before the request is made.
RatesGetRates ==
    /\ entry = "rates" /\ exc = "none" /\ pc = "fetch_rates"
    /\ exc' = "NameError"
    /\ UNCHANGED <<entry, pc, tado, rates, rateRequests, pageRequests, served, fetchStatus,
                   consumption, total_consumption, sum_consumption, i, j,
                   tariffPushes, readingPushes>>

\* ------------------------------------------------------------------ specification

Next ==
    \/ BackfillLogin
    \/ BackfillGetGasRates
    \/ BackfillRateStep
    \/ BackfillFetchPage
    \/ BackfillReadingStep
    \/ SyncFetchPage
    \/ SyncGetGasRates
    \/ SyncLogin
    \/ SyncPushReading
    \/ SyncRateLoop
    \/ RatesGetRates

Spec == Init /\ [][Next]_vars


\* ------------------------------------------------------------------ claims

FetchStages == {"fetch_consumption", "fetch_rates"}

\* what get_meter_reading_total_consumption hands back to __main__
FetcherReturn ==
    IF entry = "backfill" THEN [records |-> consumption] ELSE [total |-> total_consumption]

\* the consumption fetch has returned (a raised request in sync returns nothing)
FetchReturned ==
    \/ fetchStatus \in {"exhausted", "http_error"}
    \/ entry = "backfill" /\ fetchStatus = "transport_error"

FailedRequests == IF fetchStatus \in {"http_error", "transport_error"} THEN 1 ELSE 0

\* C1, as stated: once the fetch has ended on a non-success status at the k-th
\* page, or with the cursor exhausted, exactly the answered pages plus the
\* failing one were requested, nothing was raised, and the fetcher returned the
\* concatenation of the answered pages' results in page order.
C1_ReturnsConcatenation ==
    fetchStatus \in {"exhausted", "http_error"} =>
        /\ pageRequests = Len(served) + FailedRequests
        /\ (pc = "fetch_consumption" => exc = "none")
        /\ FetcherReturn = [records |-> Concat(served)]

\* C1, amended: as above, except that the steady-state sync entry point
\* returns the sum of the consumption of those records instead of the records.
C1_ReturnsAccumulation ==
    fetchStatus \in {"exhausted", "http_error"} =>
        /\ pageRequests = Len(served) + FailedRequests
        /\ (pc = "fetch_consumption" => exc = "none")
        /\ entry = "backfill" => FetcherReturn = [records |-> Concat(served)]
        /\ entry = "sync" => FetcherReturn = [total |-> SumOf(Concat(served))]

\* backfill: page 1 answered with records, page 2 answered 500; the run went on
C1_Witness ==
    /\ entry = "backfill"
    /\ fetchStatus = "http_error"
    /\ pageRequests = 2
    /\ Len(served) = 1
    /\ Len(consumption) = 2
    /\ pc = "done"

\* C2: a consumption or rate request that fails at the transport level does
\* not end the run: no run ends in a fetch stage with the request's exception.
C2_NoFetchStageRaises == pc \in FetchStages => exc # "ConnectionError"

AllNonNegative(s) == \A k \in 1..Len(s) : s[k].consumption >= 0

\* C3: backfill, for intervals with non-negative consumption: the pushes made
\* so far are one per interval processed, in the received order, the k-th keyed
\* by interval k's interval_end and computed as the sum of consumption of
\* intervals 1..k, whatever the outcome of earlier pushes; the values are
\* non-decreasing; when the run is done every interval has its push and the
\* last value is the sum of all deltas.
C3_BackfillRunningTotals ==
    (entry = "backfill" /\ AllNonNegative(consumption)) =>
        /\ Len(readingPushes) <= Len(consumption)
        /\ \A k \in 1..Len(readingPushes) :
             /\ readingPushes[k].item = k
             /\ readingPushes[k].date = consumption[k].interval_end
             /\ readingPushes[k].computed = SumOf(SubSeq(consumption, 1, k))
             /\ readingPushes[k].reading = IntOf(SumOf(SubSeq(consumption, 1, k)))
        /\ \A k \in 1..(Len(readingPushes) - 1) :
             /\ readingPushes[k].computed <= readingPushes[k + 1].computed
             /\ readingPushes[k].reading <= readingPushes[k + 1].reading
        /\ pc = "reading_loop" => Len(readingPushes) = j - 1
        /\ pc = "done" =>
             /\ Len(readingPushes) = Len(consumption)
             /\ consumption # <<>> =>
                  readingPushes[Len(readingPushes)].computed = SumOf(consumption)

\* backfill done over four non-negative intervals from two pages, the first
\* push having failed
C3_Witness ==
    /\ entry = "backfill"
    /\ pc = "done"
    /\ Len(consumption) = 4
    /\ AllNonNegative(consumption)
    /\ Len(readingPushes) = 4
    /\ ~readingPushes[1].ok
    /\ readingPushes[4].computed = 10

\* the rate records that become a tariff window (both timestamps parse)
Windows(rs) == SelectSeq(rs, LAMBDA r : Parses(r.valid_from) /\ Parses(r.valid_to))

\* the items an entry point's submission stage iterates
ExpectedTariffItems ==
    IF entry = "backfill" THEN Len(Windows(rates))
    ELSE IF rates # <<>> THEN 1 ELSE 0

ExpectedReadingItems == IF entry = "backfill" THEN Len(consumption) ELSE 1

OkCount(pushes) == Cardinality({k \in 1..Len(pushes) : pushes[k].ok})

FailCount(pushes) == Cardinality({k \in 1..Len(pushes) : ~pushes[k].ok})

\* C4: when a run that reached its submission stage has ended, every item was
\* attempted exactly once, whichever pushes raised, and successes plus
\* failures is the number of items.
C4_EveryItemAttemptedOnce ==
    (RunEnded /\ tado = "session") =>
        /\ Len(tariffPushes) = ExpectedTariffItems
        /\ Len(readingPushes) = ExpectedReadingItems
        /\ \A a, b \in 1..Len(tariffPushes) : a # b => tariffPushes[a].item # tariffPushes[b].item
        /\ \A a, b \in 1..Len(readingPushes) : a # b => readingPushes[a].item # readingPushes[b].item
        /\ OkCount(tariffPushes) + FailCount(tariffPushes) = ExpectedTariffItems
        /\ OkCount(readingPushes) + FailCount(readingPushes) = ExpectedReadingItems

\* days of year y before its month m
DaysBeforeMonth(y, m) ==
    <<0, 31, 59, 90, 120, 151, 181, 212, 243, 273, 304, 334>>[m]
        + (IF m > 2 /\ IsLeap(y) THEN 1 ELSE 0)

\* days in the years 1 .. y-1 of the proleptic Gregorian calendar
DaysBeforeYear(y) == 365 * (y - 1) + (y - 1) \div 4 - (y - 1) \div 100 + (y - 1) \div 400

\* the ordinal of a calendar date <<y, m, d>>
DayNumber(date) == DaysBeforeYear(date[1]) + DaysBeforeMonth(date[1], date[2]) + date[3]

IsCalendarDate(date) ==
    /\ date[2] \in 1..12
    /\ date[3] \in 1..DaysInMonth(date[1], date[2])

TimestampBefore(a, b) ==
    \/ DayNumber(DateOf(a)) < DayNumber(DateOf(b))
    \/ DayNumber(DateOf(a)) = DayNumber(DateOf(b)) /\ a.h < b.h

\* C6: every window handed to a tariff push for a record with
\* valid_from < valid_to has date_from <= date_to.
C6_WindowOrdered ==
    \A k \in 1..Len(tariffPushes) :
        LET p == tariffPushes[k]
            r == rates[p.item]
        IN  TimestampBefore(r.valid_from, r.valid_to)
                => DayNumber(p.date_from) <= DayNumber(p.date_to)

\* C7: when the consumption fetcher yields no record, no meter-reading push is
\* made.
C7_NoPushOnEmpty ==
    (FetchReturned /\ Concat(served) = <<>>) => readingPushes = <<>>

\* C8: a sync run that fetched a non-empty rate list and whose meter-reading
\* push went through ends with exactly one meter-reading push, of the sum of
\* consumption over all fetched intervals, and exactly one tariff push, for the
\* first rate record with the window backfill uses for it.
C8_SyncPushesTotalAndFirstRate ==
    (entry = "sync" /\ RunEnded /\ rates # <<>>
        /\ readingPushes # <<>> /\ readingPushes[1].ok) =>
        /\ Len(readingPushes) = 1
        /\ readingPushes[1].computed = SumOf(Concat(served))
        /\ Len(tariffPushes) = 1
        /\ tariffPushes[1].item = 1
        /\ tariffPushes[1].date_from = NormalizeWindow(rates[1]).date_from
        /\ tariffPushes[1].date_to = NormalizeWindow(rates[1]).date_to

C10_PushedTotalsNonDecreasing ==
    \A k \in 1..(Len(readingPushes) - 1) :
        readingPushes[k].reading <= readingPushes[k + 1].reading


====
